---- MODULE Spec2Model ----
(***************************************************************************)
(* A model of src/bot.py: the Flask application with its two routes,       *)
(* /telegram (telegram_config) and /webhook (webhook), and the three       *)
(* module-level objects they share: webhook_secret, presets, user_states.  *)
(* The brokerage client ib (line 30) is the environment: `ib` holds what    *)
(* its calls answer.                                                       *)
(*                                                                         *)
(* Flask's development server (app.run, line 161) serves each request on   *)
(* its own thread, so handlers interleave.  A handler is modelled as a     *)
(* process over a slot of Handlers; one step is taken per access to a      *)
(* shared object (the globals, a session dict, the brokerage, the          *)
(* notification channel); purely local computation is folded into the      *)
(* step of the shared access that follows it.                              *)
(*                                                                         *)
(* Data representation                                                     *)
(*  - a text is the sequence of its whitespace-separated tokens (what      *)
(*    str.split() returns); str.strip() is therefore built in.             *)
(*  - a float is an integer number of hundredths: float("60") is 6000 and  *)
(*    6000/100.0 is 60 (0.60).  All numerals of the model are whole, so    *)
(*    the division by 100.0 is exact.                                      *)
(*  - a Python dict with optional keys is a record plus the set of keys    *)
(*    present; reading an absent key is a KeyError.                        *)
(*  - HMAC-SHA256 is an ideal keyed digest: the pair of key and message.   *)
(***************************************************************************)
EXTENDS Integers, Sequences, FiniteSets, TLC

\* ------------------------------------------------------------------------
\* Strings: tokens, case conversion, number parsing
\* ------------------------------------------------------------------------

\* str.upper() of one token (the tokens the model's requests are built from).
UpperTok(t) ==
  CASE t = "/set"       -> "/SET"
    [] t = "/show"      -> "/SHOW"
    [] t = "/getsecret" -> "/GETSECRET"
    [] t = "/setsecret" -> "/SETSECRET"
    [] t = "aapl"       -> "AAPL"
    [] t = "buy"        -> "BUY"
    [] t = "hold"       -> "HOLD"
    [] t = "s2"         -> "S2"
    [] OTHER            -> t

\* str.lower() of one token.
LowerTok(t) ==
  CASE t = "/SET"       -> "/set"
    [] t = "/Set"       -> "/set"
    [] t = "/SHOW"      -> "/show"
    [] t = "AAPL"       -> "aapl"
    [] t = "BUY"        -> "buy"
    [] t = "SELL"       -> "sell"
    [] t = "HOLD"       -> "hold"
    [] OTHER            -> t

\* text.upper(), text.lower(): case conversion keeps the token structure.
Upper(text) == [i \in 1..Len(text) |-> UpperTok(text[i])]
Lower(text) == [i \in 1..Len(text) |-> LowerTok(text[i])]

\* The tokens float() accepts.
IsNumeral(t) == t \in {"60", "-5"}

\* float(t) for a numeral, in hundredths.
FloatTok(t) ==
  CASE t = "60" -> 6000
    [] t = "-5" -> 0 - 500
    [] OTHER    -> 0

\* float(text) succeeds iff the text is a single numeral (float() tolerates
\* surrounding blanks only); otherwise it raises ValueError.
Parses(text) == Len(text) = 1 /\ IsNumeral(text[1])
Float(text) == FloatTok(text[1])

\* x / 100.0
Div100(x) == x \div 100

\* text.lower().startswith("/setsecret "): the first token is the keyword and
\* something follows it (text is stripped, so a trailing blank cannot match).
IsSetSecret(text) == Len(text) >= 2 /\ LowerTok(text[1]) = "/setsecret"

\* text.split(maxsplit=1)[1]: everything after the first token.
SecretArg(text) == SubSeq(text, 2, Len(text))

\* text.lower() == "/getsecret", "/set", "/show"
IsGetSecret(text) == Lower(text) = <<"/getsecret">>
IsBareSet(text) == Lower(text) = <<"/set">>
IsShow(text) == Lower(text) = <<"/show">>

\* text.lower().startswith("/set ")
IsSetPrefix(text) == Len(text) >= 2 /\ LowerTok(text[1]) = "/set"

\* len(parts) == 4
HasFourParts(text) == Len(text) = 4

\* float(size), float(profit) of a four-part /set both succeed.
OneShotParses(text) == IsNumeral(text[3]) /\ IsNumeral(text[4])

\* The dict stored at line 75 or 102.
Preset(size, profit) == [order_size |-> size, min_profit_pct |-> Div100(profit)]

\* presets.setdefault(key, value): a key already present keeps its value.
StoreKeepFirst(map, key, value) ==
  [k \in (DOMAIN map) \cup {key} |-> IF k \in DOMAIN map THEN map[k] ELSE value]

\* presets[key] = value
Store(map, key, value) ==
  [k \in (DOMAIN map) \cup {key} |-> IF k = key THEN value ELSE map[k]]

\* ------------------------------------------------------------------------
\* Requests
\* ------------------------------------------------------------------------

\* The handler threads that can run at the same time.
Handlers == {1, 2}

\* settings.TELEGRAM_CHAT_ID, and a chat that is not the operator's.
OperatorChat == "operator"
ChatIds == {OperatorChat, "stranger"}

\* The operator texts of the model, already stripped and split.
Texts ==
  { <<"/set">>, <<"aapl">>, <<"60">>,
    <<"/Set", "aapl", "-5", "-5">>, <<"/set", "aapl", "60", "60">>,
    <<"/set", "aapl", "aapl", "60">>,
    <<"/setsecret", "s2">>, <<"/getsecret">>, <<"/show">> }

\* settings.WEBHOOK_SECRET, the value webhook_secret starts with.
InitialSecret == <<"s1">>
Secrets == {InitialSecret, <<"s2">>}

\* The JSON bodies {"ticker": ..., "signal": ...} of the model.
Payloads == [ticker : {<<"aapl">>}, signal : {<<"buy">>, <<"SELL">>, <<"hold">>}]
NoPayload == [ticker |-> <<>>, signal |-> <<>>]

\* hmac.new(key, msg, hashlib.sha256).hexdigest(): an ideal digest, equal for
\* equal key and message only.
HmacHex(key, msg) == [kind |-> "hex", key |-> key, msg |-> msg]

\* request.headers.get("X-Signature", ""): absent or empty; and a header value
\* holding a character outside ASCII.
EmptySignature == [kind |-> "empty", key |-> <<>>, msg |-> NoPayload]
NonAsciiSignature == [kind |-> "nonascii", key |-> <<>>, msg |-> NoPayload]
Signatures ==
  {HmacHex(k, p) : k \in Secrets, p \in Payloads} \cup {EmptySignature, NonAsciiSignature}

\* The texts a chat other than the operator's sends.
StrangerTexts == { <<"/setsecret", "s2">>, <<"/Set", "aapl", "-5", "-5">> }

TelegramRequests ==
  { r \in [kind : {"telegram"}, chat : ChatIds, text : Texts,
            payload : {NoPayload}, sig : {EmptySignature}] :
      r.chat # OperatorChat => r.text \in StrangerTexts }
WebhookRequests ==
  [kind : {"webhook"}, chat : {"none"}, text : {<<>>},
   payload : Payloads, sig : Signatures]
NoRequest ==
  [kind |-> "none", chat |-> "none", text |-> <<>>,
   payload |-> NoPayload, sig |-> EmptySignature]

\* ------------------------------------------------------------------------
\* State
\* ------------------------------------------------------------------------

\* What the brokerage can answer (hundredths): ticker.last, the AvailableFunds
\* account value, ib.position(contract) and pnl.unrealizedPNL.
MarketPrices == {0 - 1000, 0, 1000}
AvailableFunds == {0, 10000}
NoPosition == [held |-> FALSE, position |-> 0, avgCost |-> 0]
Holdings == {NoPosition, [held |-> TRUE, position |-> 1000, avgCost |-> 5000],
             [held |-> TRUE, position |-> 1000, avgCost |-> 0]}
UnrealizedPnl == {1000, 30000}

\* The brokerage behind `ib` (line 30).  Unpinned, each call answers with any
\* of the values above; pinned, the market stands still and every call answers
\* from one snapshot.
AnyMarket ==
  [pinned |-> FALSE, last |-> 0, funds |-> 0, pos |-> NoPosition, pnl |-> 0]
Snapshots ==
  [pinned : {TRUE}, last : MarketPrices, funds : AvailableFunds,
   pos : Holdings, pnl : UnrealizedPnl]

VARIABLES
  webhook_secret,  \* the global of line 26
  presets,         \* the dict of line 35: ticker -> preset
  user_states,     \* the dict of line 36: chat id -> session dict
  pc,              \* where each handler thread stands
  req,             \* the request each handler thread serves
  local,           \* the handler's local variables
  resp,            \* what the handler has sent, ordered and returned
  dialog,          \* history: the operator's texts of the dialogue under way
  ib               \* the brokerage the handlers call (line 30)

vars == <<webhook_secret, presets, user_states, pc, req, local, resp, dialog, ib>>

\* A chat id with no entry in user_states; user_states.get(chat_id) is None.
NoSession == [keys |-> {}, step |-> "", ticker |-> <<>>, order_size |-> 0]

\* {"step": "ticker"}, the dict built at line 82.
NewSession == [keys |-> {"step"}, step |-> "ticker", ticker |-> <<>>, order_size |-> 0]

\* The local `state` of telegram_config is a reference to a session dict.  The
\* dict it refers to is either the one user_states holds for the chat
\* ("attached": the handler and user_states see each other's writes), or one
\* that has since left user_states ("detached": popped at line 104 or
\* replaced at line 82 by another handler).  The step that takes a dict out of
\* user_states is the last of its handler, or that of a handler whose `state`
\* is None, so with two handler threads a detached dict has one holder, which
\* keeps it in `obj`.
NoState == [ref |-> "none", obj |-> NoSession]
Attached == [ref |-> "attached", obj |-> NoSession]
Detached(obj) == [ref |-> "detached", obj |-> obj]

\* presets.get(ticker) when the key is absent.
NoCfg == [found |-> FALSE, order_size |-> 0, min_profit_pct |-> 0]

\* The name `signal` before anything is bound to it.
Unbound == <<"<unbound>">>

NoLocal ==
  [state |-> NoState, ticker |-> <<>>, signal |-> Unbound, cfg |-> NoCfg,
   price |-> 0, cash |-> 0]

NoResp == [status |-> 0, sent |-> <<>>, error |-> "none", orders |-> <<>>]

Init ==
  /\ webhook_secret = InitialSecret
  /\ presets = [k \in {} |-> NoCfg]
  /\ user_states = [c \in ChatIds |-> NoSession]
  /\ pc = [h \in Handlers |-> "idle"]
  /\ req = [h \in Handlers |-> NoRequest]
  /\ local = [h \in Handlers |-> NoLocal]
  /\ resp = [h \in Handlers |-> NoResp]
  /\ dialog = <<>>
  /\ ib = AnyMarket

\* What the calls of lines 140, 143, 150 and 151 can answer.
LastPrices == IF ib.pinned THEN {ib.last} ELSE MarketPrices
Funds == IF ib.pinned THEN {ib.funds} ELSE AvailableFunds
Positions == IF ib.pinned THEN {ib.pos} ELSE Holdings
Pnls == IF ib.pinned THEN {ib.pnl} ELSE UnrealizedPnl

\* The dict handler h's `state` refers to.
StateOf(h) ==
  IF local[h].state.ref = "attached" THEN user_states[req[h].chat]
  ELSE local[h].state.obj

\* The locals once the dict user_states holds for `chat` is taken out of it by
\* handler h: the other handlers that refer to it keep it alive.
Detach(h, chat) ==
  [g \in Handlers |->
     IF g # h /\ req[g].chat = chat /\ local[g].state.ref = "attached"
       THEN [local[g] EXCEPT !.state = Detached(user_states[chat])]
       ELSE local[g]]

\* ------------------------------------------------------------------------
\* Leaving a handler, and moving on inside it
\* ------------------------------------------------------------------------

\* The handler returns (or an exception leaves it): Flask answers with
\* `status` (500 for an unhandled exception); the handler's locals are gone.
\* `loc` is the locals as the step leaves them.
ReturnWith(h, status, error, sent, orders, loc) ==
  /\ pc' = [pc EXCEPT ![h] = "done"]
  /\ UNCHANGED <<req, dialog, ib>>
  /\ resp' = [resp EXCEPT ![h] = [status |-> status, error |-> error,
                                  sent |-> sent, orders |-> orders]]
  /\ local' = [loc EXCEPT ![h] = NoLocal]

Return(h, status, error, sent) ==
  ReturnWith(h, status, error, sent, <<>>, local)

\* notify(chat_id, text) followed by `return "", 200`: tg.send_message either
\* delivers, or raises and the exception leaves the handler.
NotifyReturn(h, kind, delivered) ==
  IF delivered
    THEN Return(h, 200, "none", <<kind>>)
    ELSE Return(h, 500, "DownstreamError", <<>>)

\* The step moves handler h to `label`.
Goto(h, label) ==
  /\ pc' = [pc EXCEPT ![h] = label]
  /\ UNCHANGED <<req, resp, dialog, ib>>

\* state[...] = ...: the write lands in the dict `state` refers to.
WriteState(h, obj) ==
  IF local[h].state.ref = "attached"
    THEN /\ user_states' = [user_states EXCEPT ![req[h].chat] = obj]
         /\ local' = local
    ELSE /\ local' = [local EXCEPT ![h].state = Detached(obj)]
         /\ user_states' = user_states

\* ------------------------------------------------------------------------
\* Request arrival
\* ------------------------------------------------------------------------

InFlight == {h \in Handlers : pc[h] # "idle"}

\* text[0] == "/"
StartsWithSlash(text) ==
  text # <<>> /\ text[1] \in {"/set", "/Set", "/show", "/getsecret", "/setsecret"}

\* The transcript of the interactive dialogue once operator text r.text
\* arrives: a bare /set that finds no session starts one; a ticker, then a
\* number, then a number continue it; any other operator text ends it.  It
\* is kept while requests are served one at a time.
Observe(r, serial) ==
  IF ~serial THEN <<>>
  ELSE IF r.kind # "telegram" \/ r.chat # OperatorChat THEN dialog
  ELSE IF IsBareSet(r.text) /\ user_states[OperatorChat] = NoSession THEN <<r.text>>
  ELSE IF Len(dialog) = 1 /\ ~StartsWithSlash(r.text) THEN Append(dialog, r.text)
  ELSE IF Len(dialog) \in {2, 3} /\ Parses(r.text) THEN Append(dialog, r.text)
  ELSE <<>>

\* Flask hands a request to the first free thread; at most `limit` requests
\* are being served at a time.
Receive(h, r, limit) ==
  /\ pc[h] = "idle"
  /\ \A g \in Handlers : g < h => pc[g] # "idle"
  /\ Cardinality(InFlight) < limit
  /\ pc' = [pc EXCEPT ![h] = IF r.kind = "telegram" THEN "t46" ELSE "w125"]
  /\ req' = [req EXCEPT ![h] = r]
  /\ resp' = [resp EXCEPT ![h] = NoResp]
  /\ dialog' = Observe(r, limit = 1)
  /\ UNCHANGED <<webhook_secret, presets, user_states, local, ib>>

\* The response has gone out; the thread is free again.
Respond(h) ==
  /\ pc[h] = "done"
  /\ pc' = [pc EXCEPT ![h] = "idle"]
  /\ req' = [req EXCEPT ![h] = NoRequest]
  /\ resp' = [resp EXCEPT ![h] = NoResp]
  /\ UNCHANGED <<webhook_secret, presets, user_states, local, dialog, ib>>

\* ------------------------------------------------------------------------
\* telegram_config (lines 43-120)
\* ------------------------------------------------------------------------

\* Lines 46-81, 107-120: the chat check and the dispatch on the text, up to and
\* including the first access to shared state of the branch taken.
TelegramRoute(h) ==
  /\ pc[h] = "t46"
  /\ LET text == req[h].text
         chat == req[h].chat
     IN
     IF chat # OperatorChat THEN
       \* lines 50-51
       /\ Return(h, 403, "none", <<>>)
       /\ UNCHANGED <<webhook_secret, presets, user_states>>
     ELSE IF IsSetSecret(text) THEN
       \* lines 54-58
       /\ webhook_secret' = SecretArg(text)
       /\ \E delivered \in BOOLEAN : NotifyReturn(h, "secret_updated", delivered)
       /\ UNCHANGED <<presets, user_states>>
     ELSE IF IsGetSecret(text) THEN
       \* lines 60-62
       /\ \E delivered \in BOOLEAN : NotifyReturn(h, "secret", delivered)
       /\ UNCHANGED <<webhook_secret, presets, user_states>>
     ELSE IF IsSetPrefix(text) /\ HasFourParts(text) THEN
       \* lines 65-77
       IF ~OneShotParses(text) THEN
         /\ \E delivered \in BOOLEAN : NotifyReturn(h, "usage", delivered)
         /\ UNCHANGED <<webhook_secret, presets, user_states>>
       ELSE
         /\ presets' = Store(presets, <<UpperTok(text[2])>>,
                             Preset(FloatTok(text[3]), FloatTok(text[4])))
         /\ \E delivered \in BOOLEAN : NotifyReturn(h, "preset_saved", delivered)
         /\ UNCHANGED <<webhook_secret, user_states>>
     ELSE
       \* line 80: state = user_states.get(chat_id)
       LET state == user_states[chat] IN
       IF IsBareSet(text) /\ state = NoSession THEN
         /\ Goto(h, "t82")
         /\ UNCHANGED <<webhook_secret, presets, user_states, local>>
       ELSE IF state # NoSession THEN
         /\ Goto(h, "t86")
         /\ local' = [local EXCEPT ![h].state = Attached]
         /\ UNCHANGED <<webhook_secret, presets, user_states>>
       ELSE IF IsShow(text) THEN
         /\ Goto(h, "t109")
         /\ UNCHANGED <<webhook_secret, presets, user_states, local>>
       ELSE
         \* lines 117-120
         /\ \E delivered \in BOOLEAN : NotifyReturn(h, "help", delivered)
         /\ UNCHANGED <<webhook_secret, presets, user_states>>

\* Lines 82-84: a new session dict is stored under the chat id, in place of
\* whatever another handler has stored there since line 80.
TelegramOpen(h) ==
  /\ pc[h] = "t82"
  /\ user_states' = [user_states EXCEPT ![req[h].chat] = NewSession]
  /\ \E delivered \in BOOLEAN :
       IF delivered
         THEN ReturnWith(h, 200, "none", <<"enter_ticker">>, <<>>,
                         Detach(h, req[h].chat))
         ELSE ReturnWith(h, 500, "DownstreamError", <<>>, <<>>,
                         Detach(h, req[h].chat))
  /\ UNCHANGED <<webhook_secret, presets>>

\* Line 86: step = state["step"], and the parse of lines 92 and 99, which is
\* local.
TelegramStep(h) ==
  /\ pc[h] = "t86"
  /\ LET step == StateOf(h).step
         text == req[h].text
     IN
     IF step = "ticker" THEN
       /\ Goto(h, "t88")
       /\ UNCHANGED local
     ELSE IF ~Parses(text) THEN
       \* lines 93-94, 100-101
       \E delivered \in BOOLEAN : NotifyReturn(h, "number_only", delivered)
     ELSE
       /\ Goto(h, IF step = "size" THEN "t92" ELSE "t102")
       /\ UNCHANGED local
  /\ UNCHANGED <<webhook_secret, presets, user_states>>

\* Line 88 with its two statements swapped: state["step"] = "size" first.
TelegramTickerStepFirst(h) ==
  /\ pc[h] = "t88"
  /\ WriteState(h, [StateOf(h) EXCEPT !.step = "size"])
  /\ Goto(h, "t88b")
  /\ UNCHANGED <<webhook_secret, presets>>

\* Line 88, first statement: state["ticker"] = text.upper()
TelegramTicker(h) ==
  /\ pc[h] = "t88"
  /\ WriteState(h, [StateOf(h) EXCEPT !.ticker = Upper(req[h].text),
                                      !.keys = @ \cup {"ticker"}])
  /\ Goto(h, "t88b")
  /\ UNCHANGED <<webhook_secret, presets>>

\* The steps that end with the write of state["step"], the prompt and the
\* return of line 105.
AdvanceReturn(h, step, kind) ==
  /\ pc' = [pc EXCEPT ![h] = "done"]
  /\ UNCHANGED <<req, dialog, ib>>
  /\ user_states' =
       IF local[h].state.ref = "attached"
         THEN [user_states EXCEPT ![req[h].chat].step = step]
         ELSE user_states
  /\ local' = [local EXCEPT ![h] = NoLocal]
  /\ \E delivered \in BOOLEAN :
       resp' = [resp EXCEPT ![h] =
                  IF delivered
                    THEN [status |-> 200, error |-> "none",
                          sent |-> <<kind>>, orders |-> <<>>]
                    ELSE [status |-> 500, error |-> "DownstreamError",
                          sent |-> <<>>, orders |-> <<>>]]

\* Lines 88-89 and 105: state["step"] = "size", the prompt, the return.
TelegramTickerDone(h) ==
  /\ pc[h] = "t88b"
  /\ AdvanceReturn(h, "size", "enter_size")
  /\ UNCHANGED <<webhook_secret, presets>>

\* Line 92: state["order_size"] = float(text)
TelegramSize(h) ==
  /\ pc[h] = "t92"
  /\ WriteState(h, [StateOf(h) EXCEPT !.order_size = Float(req[h].text),
                                      !.keys = @ \cup {"order_size"}])
  /\ Goto(h, "t95")
  /\ UNCHANGED <<webhook_secret, presets>>

\* Lines 95-96 and 105: state["step"] = "profit", the prompt, the return.
TelegramSizeDone(h) ==
  /\ pc[h] = "t95"
  /\ AdvanceReturn(h, "profit", "enter_profit")
  /\ UNCHANGED <<webhook_secret, presets>>

\* Line 102: presets[state["ticker"]] = {...}; a key the session dict lacks
\* raises KeyError.
TelegramSave(h) ==
  /\ pc[h] = "t102"
  /\ LET state == StateOf(h)
     IN
     IF {"ticker", "order_size"} \subseteq state.keys THEN
       /\ presets' = Store(presets, state.ticker,
                           Preset(state.order_size, Float(req[h].text)))
       /\ Goto(h, "t103")
       /\ UNCHANGED local
     ELSE
       /\ Return(h, 500, "KeyError", <<>>)
       /\ UNCHANGED presets
  /\ UNCHANGED <<webhook_secret, user_states>>

\* Lines 103-105: the confirmation, then user_states.pop(chat_id), which
\* raises KeyError when the chat id has no entry.
TelegramClose(h) ==
  /\ pc[h] = "t103"
  /\ \E delivered \in BOOLEAN :
       IF ~delivered THEN
         /\ Return(h, 500, "DownstreamError", <<>>)
         /\ UNCHANGED user_states
       ELSE IF user_states[req[h].chat] = NoSession THEN
         /\ Return(h, 500, "KeyError", <<"saved">>)
         /\ UNCHANGED user_states
       ELSE
         /\ ReturnWith(h, 200, "none", <<"saved">>, <<>>, Detach(h, req[h].chat))
         /\ user_states' = [user_states EXCEPT ![req[h].chat] = NoSession]
  /\ UNCHANGED <<webhook_secret, presets>>

\* Lines 108-114: /show
TelegramShow(h) ==
  /\ pc[h] = "t109"
  /\ \E delivered \in BOOLEAN :
       NotifyReturn(h, IF DOMAIN presets = {} THEN "no_presets" ELSE "presets",
                    delivered)
  /\ UNCHANGED <<webhook_secret, presets, user_states>>

\* ------------------------------------------------------------------------
\* webhook (lines 123-157)
\* ------------------------------------------------------------------------

\* hmac.compare_digest(sig, expected) on two str raises TypeError unless both
\* are ASCII; expected is a hex digest.
CompareRaises(sig) == sig.kind = "nonascii"
CompareDigest(sig, expected) == sig = expected

\* The digest keyed by settings.WEBHOOK_SECRET instead of the global.
ExpectedFromSettings(secret, payload) == HmacHex(InitialSecret, payload)

\* Line 127: the digest the handler expects, keyed by the secret it read.
Expected(secret, payload) == HmacHex(secret, payload)

\* Lines 125-128: one read of webhook_secret, the digest, the comparison.
WebhookVerify(h) ==
  /\ pc[h] = "w125"
  /\ LET expected == Expected(webhook_secret, req[h].payload)
     IN
     IF CompareRaises(req[h].sig) THEN
       Return(h, 500, "TypeError", <<>>)
     ELSE IF ~CompareDigest(req[h].sig, expected) THEN
       Return(h, 403, "none", <<>>)
     ELSE
       /\ Goto(h, "w130")
       /\ UNCHANGED local
  /\ UNCHANGED <<webhook_secret, presets, user_states>>

\* Lines 131-132 as two assignments, ticker and signal both bound.
ParsedNamesBothBound(payload) ==
  [ticker |-> Upper(payload.ticker), signal |-> Upper(payload.signal)]

\* Lines 131-132 are ONE assignment statement: the third quote of
\*     data.get("ticker",""").upper()
\* opens a triple-quoted string that runs to the """ of line 132, so the
\* statement reads  ticker = data.get("ticker", <that string>).upper()  and no
\* statement of webhook() binds the name `signal`.
ParsedNames(payload) == [ticker |-> Upper(payload.ticker), signal |-> Unbound]

\* presets.get(ticker)
Lookup(map, ticker) ==
  IF ticker \in DOMAIN map
    THEN [found |-> TRUE, order_size |-> map[ticker].order_size,
          min_profit_pct |-> map[ticker].min_profit_pct]
    ELSE NoCfg

\* Lines 130-136: the names bound from the payload, the preset lookup, and
\* the reply when there is none.
WebhookLookup(h) ==
  /\ pc[h] = "w130"
  /\ LET names == ParsedNames(req[h].payload)
         cfg == Lookup(presets, names.ticker)
     IN
     IF ~cfg.found THEN
       \E delivered \in BOOLEAN :
         NotifyReturn(h, "no_preset", delivered)
     ELSE
       /\ Goto(h, "w138")
       /\ local' = [local EXCEPT ![h].ticker = names.ticker,
                                 ![h].signal = names.signal, ![h].cfg = cfg]
  /\ UNCHANGED <<webhook_secret, presets, user_states>>

\* pnl/(pos.avgCost*pos.position) >= cfg["min_profit_pct"] for a non-zero
\* divisor, on hundredths.
ProfitReached(pnl, pos, cfg) ==
  IF pos.avgCost * pos.position > 0
    THEN pnl * 10000 >= cfg.min_profit_pct * pos.avgCost * pos.position
    ELSE pnl * 10000 =< cfg.min_profit_pct * pos.avgCost * pos.position

\* ib.placeOrder(contract, LimitOrder(side, qty, price)).  A quantity is kept
\* as the quotient it is; `cash` is the available funds the handler had read
\* when it placed the order (0 for a SELL, which reads none).
PlacedOrder(ticker, side, num, den, price, cash) ==
  [ticker |-> ticker, side |-> side, qty_num |-> num, qty_den |-> den,
   price |-> price, cash |-> cash]

\* Lines 138-157, one brokerage call or name lookup per step:
\*   w138  lines 138-140  the contract, the last price
\*   w142  line 142       `signal == "BUY"`
\*   w143  line 143       the available funds
\*   w144  lines 144-148  the quantity, the funds check, the BUY order
\*   w150  lines 150-155  the position, the P/L, the SELL order
\* `up` is whether the brokerage call goes through, `delivered` whether the
\* notification does.
WebhookTrade(h) ==
  /\ pc[h] \in {"w138", "w142", "w143", "w144", "w150"}
  /\ \E up \in BOOLEAN, delivered \in BOOLEAN, price \in LastPrices,
        cash \in Funds, pos \in Positions, pnl \in Pnls :
       LET cfg == local[h].cfg IN
       CASE pc[h] = "w138" ->
              IF ~up THEN
                Return(h, 500, "DownstreamError", <<>>)
              ELSE
                /\ Goto(h, "w142")
                /\ local' = [local EXCEPT ![h].price = price]
         [] pc[h] = "w142" ->
              IF local[h].signal = Unbound THEN
                Return(h, 500, "NameError", <<>>)
              ELSE
                /\ Goto(h, IF local[h].signal = <<"BUY">> THEN "w143" ELSE "w150")
                /\ UNCHANGED local
         [] pc[h] = "w143" ->
              IF ~up THEN
                Return(h, 500, "DownstreamError", <<>>)
              ELSE
                /\ Goto(h, "w144")
                /\ local' = [local EXCEPT ![h].cash = cash]
         [] pc[h] = "w144" ->
              IF local[h].price = 0 THEN
                Return(h, 500, "ZeroDivisionError", <<>>)
              ELSE IF local[h].cash >= cfg.order_size THEN
                IF ~up THEN
                  Return(h, 500, "DownstreamError", <<>>)
                ELSE
                  LET order == PlacedOrder(local[h].ticker, "BUY", cfg.order_size,
                                           local[h].price, local[h].price,
                                           local[h].cash)
                  IN IF delivered
                       THEN ReturnWith(h, 200, "none", <<"buy">>, <<order>>, local)
                       ELSE ReturnWith(h, 500, "DownstreamError", <<>>, <<order>>,
                                       local)
              ELSE
                NotifyReturn(h, "insufficient_funds", delivered)
         [] pc[h] = "w150" ->
              IF ~up THEN
                Return(h, 500, "DownstreamError", <<>>)
              ELSE IF ~(pos.held /\ pos.position > 0) THEN
                NotifyReturn(h, "skip_sell", delivered)
              ELSE IF pos.avgCost * pos.position = 0 THEN
                Return(h, 500, "ZeroDivisionError", <<>>)
              ELSE IF ProfitReached(pnl, pos, cfg) THEN
                LET order == PlacedOrder(local[h].ticker, "SELL", pos.position, 100,
                                         local[h].price, 0)
                IN IF delivered
                     THEN ReturnWith(h, 200, "none", <<"sell">>, <<order>>, local)
                     ELSE ReturnWith(h, 500, "DownstreamError", <<>>, <<order>>,
                                     local)
              ELSE
                NotifyReturn(h, "skip_sell", delivered)
  /\ UNCHANGED <<webhook_secret, presets, user_states>>

\* ------------------------------------------------------------------------
\* The system
\* ------------------------------------------------------------------------

Requests == TelegramRequests \cup WebhookRequests

\* The steps of the interactive dialogue.
DialogueSteps(h) ==
  \/ TelegramRoute(h)
  \/ TelegramOpen(h)
  \/ TelegramStep(h)
  \/ TelegramTicker(h)
  \/ TelegramTickerDone(h)
  \/ TelegramSize(h)
  \/ TelegramSizeDone(h)
  \/ TelegramSave(h)
  \/ TelegramClose(h)

WebhookSteps(h) ==
  \/ WebhookVerify(h)
  \/ WebhookLookup(h)
  \/ WebhookTrade(h)

\* Every request of the model, served one at a time.
NextSerial ==
  \E h \in Handlers :
    \/ \E r \in Requests : Receive(h, r, 1)
    \/ DialogueSteps(h)
    \/ TelegramShow(h)
    \/ WebhookSteps(h)
    \/ Respond(h)

SpecSerial == Init /\ [][NextSerial]_vars

\* Signals served concurrently with each other and with the operator commands
\* that change what a signal reads: the secret and the presets.
SignalRequests ==
  WebhookRequests \cup
  { r \in TelegramRequests :
      r.text \in {<<"/setsecret", "s2">>, <<"/set", "aapl", "60", "60">>} }

NextSignals ==
  \E h \in Handlers :
    \/ \E r \in SignalRequests : Receive(h, r, Cardinality(Handlers))
    \/ TelegramRoute(h)
    \/ WebhookSteps(h)
    \/ Respond(h)

SpecSignals == Init /\ [][NextSignals]_vars

\* The operator's dialogue texts served concurrently.
DialogueRequests ==
  { r \in TelegramRequests :
      r.chat = OperatorChat /\ r.text \in {<<"/set">>, <<"aapl">>, <<"60">>} }

NextDialogue ==
  \E h \in Handlers :
    \/ \E r \in DialogueRequests : Receive(h, r, Cardinality(Handlers))
    \/ DialogueSteps(h)
    \/ Respond(h)

SpecDialogue == Init /\ [][NextDialogue]_vars

\* Signals served one at a time against a market that stands still, after the
\* operator has stored a preset or not.
TradeRequests ==
  { r \in WebhookRequests : r.sig = HmacHex(InitialSecret, r.payload) } \cup
  { r \in TelegramRequests :
      r.chat = OperatorChat /\ r.text = <<"/set", "aapl", "60", "60">> }

InitTrade ==
  /\ webhook_secret = InitialSecret
  /\ presets = [k \in {} |-> NoCfg]
  /\ user_states = [c \in ChatIds |-> NoSession]
  /\ pc = [h \in Handlers |-> "idle"]
  /\ req = [h \in Handlers |-> NoRequest]
  /\ local = [h \in Handlers |-> NoLocal]
  /\ resp = [h \in Handlers |-> NoResp]
  /\ dialog = <<>>
  /\ ib \in Snapshots

NextTrade ==
  \E h \in Handlers :
    \/ \E r \in TradeRequests : Receive(h, r, 1)
    \/ TelegramRoute(h)
    \/ WebhookSteps(h)
    \/ Respond(h)

SpecTrade == InitTrade /\ [][NextTrade]_vars

\* ------------------------------------------------------------------------
\* Properties
\* ------------------------------------------------------------------------

IsWebhook(h) == req[h].kind = "webhook"
IsOperatorMessage(h) == req[h].kind = "telegram" /\ req[h].chat = OperatorChat
Done(h) == pc[h] = "done"

\* The signature of handler h's request is the digest of its body under the
\* secret as it stands.
SignedUnderCurrent(h) ==
  req[h].sig = HmacHex(webhook_secret, req[h].payload)

BuyOrders(h) ==
  {resp[h].orders[i] : i \in {j \in DOMAIN resp[h].orders : resp[h].orders[j].side = "BUY"}}

C2_DialogueSavesPreset ==
  ((\A h \in Handlers : pc[h] \in {"idle", "done"}) /\ Len(dialog) = 4) =>
    /\ Upper(dialog[2]) \in DOMAIN presets
    /\ presets[Upper(dialog[2])] =
         [order_size |-> Float(dialog[3]), min_profit_pct |-> Div100(Float(dialog[4]))]
    /\ user_states[OperatorChat] = NoSession

\* C3: every message of the operator's chat is answered with exactly one
\* notification and HTTP success (stated for the runs in which the
\* notification channel delivers).
C3_OperatorAlwaysAnswered ==
  \A h \in Handlers :
    (Done(h) /\ IsOperatorMessage(h) /\ resp[h].error # "DownstreamError") =>
      (resp[h].status = 200 /\ Len(resp[h].sent) = 1)

\* C4: a request that fails authorization (a signature that is not the digest
\* under the current secret; a chat that is not the operator's) is answered
\* with a client error, with no notification and no order.
C4_UnauthorizedRejected ==
  \A h \in Handlers :
    (Done(h) /\ \/ (IsWebhook(h) /\ ~SignedUnderCurrent(h))
                \/ (req[h].kind = "telegram" /\ req[h].chat # OperatorChat)) =>
      /\ resp[h].status \in 400..499
      /\ resp[h].sent = <<>>
      /\ resp[h].orders = <<>>

\* C5: a signal that has passed the signature check is answered with success,
\* whatever happens downstream.
C5_AuthenticatedSucceeds ==
  \A h \in Handlers :
    (Done(h) /\ IsWebhook(h) /\ SignedUnderCurrent(h)) => resp[h].status = 200

\* C6: every stored preset has an order size above zero and a minimum profit
\* of at least zero.
C6_PresetsValid ==
  \A k \in DOMAIN presets :
    presets[k].order_size > 0 /\ presets[k].min_profit_pct >= 0

C8_NoPresetSkips ==
  \A h \in Handlers :
    (/\ Done(h) /\ IsWebhook(h) /\ SignedUnderCurrent(h)
     /\ Upper(req[h].payload.ticker) \notin DOMAIN presets) =>
      /\ resp[h].orders = <<>>
      /\ resp[h].sent = <<"no_preset">>
      /\ resp[h].status = 200

\* The step in which handler h stores a one-shot preset (line 75).
OneShotWrite(h) ==
  /\ pc[h] = "t46" /\ pc'[h] = "done" /\ IsOperatorMessage(h)
  /\ ~IsSetSecret(req[h].text) /\ ~IsGetSecret(req[h].text)
  /\ IsSetPrefix(req[h].text) /\ HasFourParts(req[h].text)
  /\ OneShotParses(req[h].text)

\* The step in which handler h stores the preset of a completed dialogue
\* (line 102).
DialogueWrite(h) == pc[h] = "t102" /\ pc'[h] = "t103"

\* presets after the write of `value` under `key`: that key holds that value,
\* every other key is as it was.
WrittenOnly(key, value) ==
  /\ DOMAIN presets' = DOMAIN presets \cup {key}
  /\ presets'[key] = value
  /\ \A k \in DOMAIN presets \ {key} : presets'[k] = presets[k]

C9_UppercaseKeys == \A k \in DOMAIN presets : Upper(k) = k

C9_Writes ==
  /\ DOMAIN presets \subseteq DOMAIN presets'
  /\ \A h \in Handlers :
       /\ OneShotWrite(h) =>
            WrittenOnly(<<UpperTok(req[h].text[2])>>,
                        [order_size |-> FloatTok(req[h].text[3]),
                         min_profit_pct |-> Div100(FloatTok(req[h].text[4]))])
       /\ DialogueWrite(h) =>
            WrittenOnly(StateOf(h).ticker,
                        [order_size |-> StateOf(h).order_size,
                         min_profit_pct |-> Div100(Float(req[h].text))])
  /\ (\A h \in Handlers : ~OneShotWrite(h) /\ ~DialogueWrite(h)) => presets' = presets

\* C9: the registry is keyed by uppercase ticker, a write leaves the written
\* ticker with the written preset and every other ticker as it was, and no
\* step removes a ticker.
C9_LastWriteWins == []C9_UppercaseKeys /\ [][C9_Writes]_vars

\* A one-shot /Set for the lowercase ticker aapl has been served and AAPL
\* holds its preset.
C9_OneShotStored ==
  \E h \in Handlers :
    /\ Done(h) /\ IsOperatorMessage(h)
    /\ req[h].text = <<"/Set", "aapl", "-5", "-5">>
    /\ DOMAIN presets = {<<"AAPL">>, <<"60">>}
    /\ presets[<<"AAPL">>] = [order_size |-> 0 - 500, min_profit_pct |-> 0 - 5]

\* The step in which handler h has /setsecret handled (line 56).
Rotation(h) ==
  /\ pc[h] = "t46" /\ pc'[h] = "done" /\ IsOperatorMessage(h)
  /\ IsSetSecret(req[h].text)

\* The step in which handler h verifies its signature (lines 125-128).
Verification(h) == pc[h] = "w125" /\ pc'[h] # "w125"

C10_Steps ==
  /\ \A h \in Handlers :
       /\ Rotation(h) => webhook_secret' = SubSeq(req[h].text, 2, Len(req[h].text))
       /\ Verification(h) =>
            /\ (pc'[h] = "w130") <=> (req[h].sig = HmacHex(webhook_secret, req[h].payload))
            /\ (pc'[h] = "w130") \/ (resp'[h].status # 200)
  /\ (\A h \in Handlers : ~Rotation(h)) => webhook_secret' = webhook_secret

\* C10: /setsecret S makes S the secret, nothing else changes the secret, and
\* a verification accepts exactly the signature that is the digest under the
\* one secret current at that step.
C10_VerifiedUnderCurrentSecret == [][C10_Steps]_vars

\* After a rotation to s2, a signal signed under the initial secret has been
\* rejected while another, signed under s2, has been accepted.
C10_StaleRejected ==
  /\ webhook_secret = <<"s2">>
  /\ \E h, g \in Handlers :
       /\ Done(h) /\ IsWebhook(h) /\ resp[h].status = 403
       /\ req[h].sig = HmacHex(InitialSecret, req[h].payload)
       /\ pc[g] = "w130" /\ req[g].sig = HmacHex(<<"s2">>, req[g].payload)

\* Handler h has served an authenticated signal of action `action` for a
\* ticker that has a preset, and neither a brokerage call nor a notification
\* failed on the way.
ServedSignal(h, action) ==
  /\ Done(h) /\ IsWebhook(h) /\ SignedUnderCurrent(h)
  /\ Upper(req[h].payload.signal) = <<action>>
  /\ Upper(req[h].payload.ticker) \in DOMAIN presets
  /\ resp[h].error # "DownstreamError"

\* The preset of the ticker handler h's signal names.
PresetOf(h) == presets[Upper(req[h].payload.ticker)]

\* C11: an authenticated BUY signal with a preset, at a last price above zero,
\* places the BUY order of orderSizeCash / lastPrice at lastPrice when the
\* available funds cover orderSizeCash, and otherwise places no order and
\* reports insufficient funds.
C11_BuyIffFunds ==
  \A h \in Handlers :
    (ServedSignal(h, "BUY") /\ ib.pinned /\ ib.last > 0) =>
      IF ib.funds >= PresetOf(h).order_size
        THEN resp[h].orders =
               <<PlacedOrder(Upper(req[h].payload.ticker), "BUY",
                             PresetOf(h).order_size, ib.last, ib.last, ib.funds)>>
        ELSE resp[h].orders = <<>> /\ resp[h].sent = <<"insufficient_funds">>

\* The position the brokerage reports is held, with a cost basis above zero.
HeldAtCost(pos) == pos.held /\ pos.position > 0 /\ pos.avgCost * pos.position > 0

\* C12: an authenticated SELL signal with a preset places the SELL order of
\* the whole position at the last price exactly when a position is held, its
\* cost basis is above zero and unrealizedPnL / costBasis reaches the preset's
\* minimum profit; in every other case it places no order.
C12_SellIffProfit ==
  \A h \in Handlers :
    (ServedSignal(h, "SELL") /\ ib.pinned) =>
      IF HeldAtCost(ib.pos) /\ ProfitReached(ib.pnl, ib.pos, PresetOf(h))
        THEN resp[h].orders =
               <<PlacedOrder(Upper(req[h].payload.ticker), "SELL",
                             ib.pos.position, 100, ib.last, 0)>>
        ELSE resp[h].orders = <<>>

C14_ZeroCostBasisSkips ==
  \A h \in Handlers :
    (/\ ServedSignal(h, "SELL") /\ ib.pinned
     /\ ib.pos.held /\ ib.pos.position > 0
     /\ ib.pos.avgCost * ib.pos.position =< 0) =>
      /\ resp[h].orders = <<>>
      /\ resp[h].sent = <<"skip_sell">>
      /\ resp[h].status = 200

\* Handler h is serving an operator text that does not parse as a number
\* while the operator's session awaits the size or the profit.
InvalidNumber(h) ==
  /\ IsOperatorMessage(h) /\ pc[h] \notin {"idle", "done"}
  /\ ~Parses(req[h].text)
  /\ user_states[OperatorChat].step \in {"size", "profit"}

C15_Step ==
  \A h \in Handlers :
    InvalidNumber(h) =>
      /\ user_states' = user_states
      /\ presets' = presets
      /\ pc'[h] = "done" => (resp'[h].status = 200 /\ Len(resp'[h].sent) = 1)

\* C15: a text that is not a number, sent while the session awaits the size or
\* the profit, leaves the session and the registry as they were, is answered
\* with one prompt and succeeds.
C15_InvalidInputKeepsState == [][C15_Step]_vars

\* The transitions of the session's step: Idle is the absence of a session.
SessionTransitions ==
  { <<"", "ticker">>, <<"ticker", "size">>, <<"size", "profit">>, <<"profit", "">> }

\* Handler h takes the step, serving an operator text that the dialogue is to
\* interpret: not a one-shot /set, /setsecret or /getsecret.
DialogueStepOf(h) ==
  /\ pc'[h] # pc[h]
  /\ IsOperatorMessage(h)
  /\ ~IsSetSecret(req[h].text) /\ ~IsGetSecret(req[h].text)
  /\ ~(IsSetPrefix(req[h].text) /\ HasFourParts(req[h].text))

C16_Step ==
  LET from == user_states[OperatorChat].step
      to == user_states'[OperatorChat].step
  IN
  /\ \A c \in ChatIds \ {OperatorChat} : user_states'[c] = user_states[c]
  /\ from # to =>
       /\ <<from, to>> \in SessionTransitions
       /\ \E h \in Handlers :
            /\ DialogueStepOf(h)
            /\ from = "" => IsBareSet(req[h].text)
            /\ from \in {"size", "profit"} => Parses(req[h].text)
            /\ from = "profit" =>
                 /\ user_states'[OperatorChat] = NoSession
                 /\ user_states[OperatorChat].ticker \in DOMAIN presets

\* C16: the operator's session moves only Idle -> AwaitingTicker (bare /set),
\* AwaitingTicker -> AwaitingSize, AwaitingSize -> AwaitingProfit (a number),
\* AwaitingProfit -> Idle (a number, the preset stored); no other chat gets a
\* session and no other operation touches one.
C16_SessionStateMachine == [][C16_Step]_vars

\* A well-formed one-shot /set TICKER SIZE PROFIT.
ValidOneShot(text) ==
  IsSetPrefix(text) /\ HasFourParts(text) /\ OneShotParses(text)

C17_Step ==
  \A h \in Handlers :
    /\ (/\ pc[h] = "t46" /\ pc'[h] # pc[h]
        /\ IsOperatorMessage(h)
        /\ user_states[OperatorChat].step = "ticker"
        /\ ~ValidOneShot(req[h].text)) =>
         pc'[h] = "t86"
    /\ (pc[h] = "t88b" /\ pc'[h] = "done") =>
         /\ user_states'[OperatorChat].step = "size"
         /\ user_states'[OperatorChat].ticker = Upper(req[h].text)

\* C17: while the session awaits the ticker, every operator text that is not
\* a one-shot /set goes to the dialogue, which stores its uppercased text as
\* the ticker and moves the session to AwaitingSize.
C17_TickerStepConsumesText == [][C17_Step]_vars

\* No operator message ends in the KeyError of a dict access (lines 86, 102,
\* 104).
C18_NoHandlerFails ==
  \A h \in Handlers :
    (Done(h) /\ IsOperatorMessage(h)) => resp[h].error # "KeyError"

\* The handler that prompts for the size has moved the session it works on,
\* while still the operator's, from AwaitingTicker to AwaitingSize, and the
\* one that prompts for the profit from AwaitingSize to AwaitingProfit.
C18_Step ==
  \A h \in Handlers :
    /\ (pc[h] = "t88b" /\ pc'[h] = "done" /\ local[h].state = Attached) =>
         /\ user_states[OperatorChat].step = "ticker"
         /\ user_states'[OperatorChat].step = "size"
    /\ (pc[h] = "t95" /\ pc'[h] = "done" /\ local[h].state = Attached) =>
         /\ user_states[OperatorChat].step = "size"
         /\ user_states'[OperatorChat].step = "profit"

\* C18: two operator messages served at the same time against one session
\* behave as in some serial order: no handler fails, each valid message
\* advances the session by one step, and the session is removed once.
C18_ConcurrentAsSerial == []C18_NoHandlerFails /\ [][C18_Step]_vars

\* A session dict holds the fields its step says have been entered.
FieldsEntered(d) ==
  /\ d.step = "size" => "ticker" \in d.keys
  /\ d.step = "profit" => {"ticker", "order_size"} \subseteq d.keys

\* C19: a session at AwaitingSize has its ticker, one at AwaitingProfit its
\* ticker and its order size, and the handler that completes a session at
\* line 102 finds both in the dict it holds.
C19_SessionFieldsSet ==
  /\ \A c \in ChatIds : FieldsEntered(user_states[c])
  /\ \A h \in Handlers :
       /\ local[h].state.ref = "detached" => FieldsEntered(local[h].state.obj)
       /\ pc[h] = "t102" => {"ticker", "order_size"} \subseteq StateOf(h).keys

\* Two handlers have been completing one session: one has removed it, the
\* other is at line 102 with the dict that is no longer the operator's.
C19_CompletingRemovedSession ==
  \E h \in Handlers :
    /\ pc[h] = "t102"
    /\ local[h].state.ref = "detached"
    /\ local[h].state.obj.step = "profit"
    /\ user_states[OperatorChat] = NoSession

====
